---- MODULE Spec2Model ----
(***************************************************************************)
(* Model of the cybercog tool-calling loop: aifunc.ai, the Tool Invoker    *)
(* execute_function_by_name, the retrying Model Gateway                    *)
(* anthropic_chat_completion_request, the registry of function_wrapper.py  *)
(* and the shell entry point main.process_shell_query.                     *)
(*                                                                         *)
(* Strings are sequences of chunks; the characters that json.dumps and     *)
(* str.strip treat specially (quote, backslash, blank) are chunks of their *)
(* own, so that escaping and trimming are computed and not assumed.        *)
(***************************************************************************)
EXTENDS Integers, Sequences, FiniteSets, TLC

VARIABLES
    pc,                  \* where the single flow of control is suspended
    messages,            \* conversation_history / messages (one aliased list)
    text_content,        \* aifunc.ai local: accumulated text
    function_call_count, \* aifunc.ai local
    function_calls,      \* aifunc.ai local: calls extracted from the response
    function_results,    \* slots of the asyncio.gather in flight
    running,             \* indices of execute_function tasks not yet finished
    attempt,             \* tenacity attempt number of the gateway call in flight, or of the one ai() ended on
    final_response,      \* content of the response to the final call
    ai_result,           \* how ai() ended
    psq_result,          \* what process_shell_query returned
    tools,               \* function_wrapper.tools
    callable_registry,   \* function_wrapper.callable_registry
    scan_log,            \* errors load_functions_from_directory has logged
    scanned,             \* history: the tools modules the scan has gone through
    sent_tools,          \* history: tool list attached to each gateway call
    dispatched,          \* history: number of execute_function_by_name calls started
    iterations,          \* history: number of tool-bearing loop iterations
    responses,           \* history: content of each response received
    final_call_made,     \* history: the final call after the loop was issued
    out_of_order,        \* history: in the last gather a task finished before an earlier one
    next_id,             \* model side: tool-use ids handed out so far
    variations           \* model side: departures from the plain script so far

vars == <<pc, messages, text_content, function_call_count, function_calls,
          function_results, running, attempt, final_response, ai_result,
          psq_result, tools, callable_registry, scan_log, scanned, sent_tools,
          dispatched,
          iterations, responses, final_call_made, out_of_order, next_id,
          variations>>

\* ---------------------------------------------------------------- bounds
MaxToolsPerTurn == 2
MaxVariations == 1
MaxRegistrations == 2
MaxHistory == 3

\* ------------------------------------------------------ program constants
max_function_calls == 6
StopAfterAttempt == 3

\* ---------------------------------------------------------------- strings
Blank == " "
Quote == "\""
Backslash == "\\"

RECURSIVE LStrip(_)
LStrip(s) == IF s # <<>> /\ Head(s) = Blank THEN LStrip(Tail(s)) ELSE s

RECURSIVE RStrip(_)
RStrip(s) ==
    IF s # <<>> /\ s[Len(s)] = Blank THEN RStrip(SubSeq(s, 1, Len(s) - 1)) ELSE s

\* str.strip()
Strip(s) == RStrip(LStrip(s))

RECURSIVE Concat(_)
Concat(ss) == IF ss = <<>> THEN <<>> ELSE Head(ss) \o Concat(Tail(ss))

\* ---------------------------------------------------------------- values
StrVal(s) == [type |-> "str", s |-> s, items |-> <<>>]
ListVal(items) == [type |-> "list", s |-> <<>>, items |-> items]
CoroutineVal == [type |-> "coroutine", s |-> <<>>, items |-> <<>>]

Returned(v) == [raised |-> FALSE, val |-> v, msg |-> <<>>]
Raised(m) == [raised |-> TRUE, val |-> StrVal(<<>>), msg |-> m]

\* ---------------------------------------------------------------- json.dumps
RECURSIVE JsonEscape(_)
JsonEscape(s) ==
    IF s = <<>> THEN <<>>
    ELSE (IF Head(s) \in {Quote, Backslash} THEN <<Backslash, Head(s)>> ELSE <<Head(s)>>)
         \o JsonEscape(Tail(s))

JsonStr(s) == <<Quote>> \o JsonEscape(s) \o <<Quote>>

RECURSIVE JsonItems(_)
JsonItems(items) ==
    IF items = <<>> THEN <<>>
    ELSE JsonStr(Head(items))
         \o (IF Tail(items) = <<>> THEN <<>> ELSE <<",", Blank>>)
         \o JsonItems(Tail(items))

\* json.dumps(result) of a handler's return value
JsonDumps(v) ==
    CASE v.type = "str" -> Returned(StrVal(JsonStr(v.s)))
      [] v.type = "list" -> Returned(StrVal(<<"[">> \o JsonItems(v.items) \o <<"]">>))
      [] OTHER -> Raised(<<"Object of type ", v.type, " is not JSON serializable">>)

\* json.dumps({"error": str(e)})
JsonDumpsError(msg) ==
    <<"{">> \o JsonStr(<<"error">>) \o <<":", Blank>> \o JsonStr(msg) \o <<"}">>

\* ---------------------------------------------------------------- handlers
\* A callable held by callable_registry: whether asyncio.iscoroutinefunction
\* holds of it, whether it is the plain wrapper that function_info_decorator
\* returns around a coroutine function, and the body it runs.
Handler(is_coro, wraps_coro, body) ==
    [iscoroutinefunction |-> is_coro, wraps_coroutine |-> wraps_coro, body |-> body]

PlainTool == "A"
ToolUses == <<"A", "B">>
NoArguments == {}
MultiArguments == {<<"tool_uses", ToolUses>>}

\* the bodies of the handlers: three tools of the tools directory and
\* multi_tool_use_parallel, whose execute_tool names execute_function_by_name,
\* a name function_wrapper.py never imports
RunBody(body, kwargs) ==
    CASE body = "A" -> Returned(StrVal(<<"ra">>))
      [] body = "B" -> Returned(ListVal(<< <<"rb">> >>))
      [] body = "boom" -> Raised(<<"bad", Blank, Quote, "x", Quote>>)
      [] body = "multi_tool_use_parallel" ->
            IF \E p \in kwargs : p[1] = "tool_uses" /\ p[2] # <<>>
            THEN Raised(<<"name 'execute_function_by_name' is not defined">>)
            ELSE Returned(ListVal(<<>>))
      [] OTHER -> Raised(<<"unknown body">>)

\* what `await function_to_call(**kwargs)` or
\* `await asyncio.to_thread(function_to_call, **kwargs)` leaves in `result`
CallHandler(h, kwargs) ==
    IF h.iscoroutinefunction THEN RunBody(h.body, kwargs)
    ELSE IF h.wraps_coroutine THEN Returned(CoroutineVal)
    ELSE RunBody(h.body, kwargs)

\* the registry indexed without the membership test
TryInvoke_KeyError(registry, function_name, kwargs) ==
    IF function_name \in DOMAIN registry
    THEN LET r == CallHandler(registry[function_name], kwargs) IN
         IF r.raised THEN r
         ELSE IF r.val.type = "str" THEN r ELSE JsonDumps(r.val)
    ELSE Raised(<<"'", function_name, "'">>)

\* the try block of execute_function_by_name
TryInvoke(registry, function_name, kwargs) ==
    IF function_name \in DOMAIN registry
    THEN LET r == CallHandler(registry[function_name], kwargs) IN
         IF r.raised THEN r
         ELSE IF r.val.type = "str" THEN r ELSE JsonDumps(r.val)
    ELSE Raised(<<"Function ", function_name, " not found in registry">>)

\* the try block without its except clause
execute_function_by_name_NoExcept(registry, function_name, kwargs) ==
    TryInvoke(registry, function_name, kwargs)

\* try ... except Exception as e: return json.dumps({"error": str(e)})
execute_function_by_name(registry, function_name, kwargs) ==
    LET r == TryInvoke(registry, function_name, kwargs) IN
    IF r.raised THEN Returned(StrVal(JsonDumpsError(r.msg))) ELSE r

\* ---------------------------------------------------------------- registry
\* the descriptor offered without the handler being stored
FunctionWrapperInit_DescriptorOnly(reg, name, func) ==
    [callable_registry |-> reg.callable_registry,
     tools |-> Append(reg.tools, [type |-> "function", function |-> [name |-> name]])]

\* FunctionWrapper.__init__: register the raw function and its descriptor
FunctionWrapperInit(reg, name, func) ==
    [callable_registry |-> (name :> func) @@ reg.callable_registry,
     tools |-> Append(reg.tools, [type |-> "function", function |-> [name |-> name]])]

RECURSIVE LoadTools(_, _)
LoadTools(reg, defs) ==
    IF defs = <<>> THEN reg
    ELSE LoadTools(FunctionWrapperInit(reg, Head(defs).name, Head(defs).func), Tail(defs))

\* the decorated functions of the tools directory, in import order
ToolsDirectory ==
    << [name |-> "A", func |-> Handler(TRUE, FALSE, "A")],
       [name |-> "B", func |-> Handler(FALSE, FALSE, "B")],
       [name |-> "boom", func |-> Handler(FALSE, FALSE, "boom")] >>

\* what function_info_decorator returns around an async def
DecoratorWrapper(body) == Handler(FALSE, TRUE, body)

\* function_wrapper.py, module level: scan the directory, decorate
\* multi_tool_use_parallel, then store the decorated name in the registry
StartupRegistry ==
    LET loaded == LoadTools([callable_registry |-> <<>>, tools |-> <<>>], ToolsDirectory)
        decorated == FunctionWrapperInit(loaded, "multi_tool_use_parallel",
                        Handler(TRUE, FALSE, "multi_tool_use_parallel"))
    IN [callable_registry |->
            ("multi_tool_use_parallel" :> DecoratorWrapper("multi_tool_use_parallel"))
                @@ decorated.callable_registry,
        tools |-> decorated.tools]

\* ---------------------------------------------------------------- transcript
NoId == 0

TextSeg(t) ==
    [type |-> "text", text |-> t, id |-> NoId, name |-> "", input |-> {}, content |-> <<>>]
ToolUseSeg(id, name, input) ==
    [type |-> "tool_use", text |-> <<>>, id |-> id, name |-> name, input |-> input,
     content |-> <<>>]
ToolResultSeg(id, payload) ==
    [type |-> "tool_result", text |-> <<>>, id |-> id, name |-> "", input |-> {},
     content |-> payload]

Message(role, content) == [role |-> role, content |-> content]

\* ---------------------------------------------------------------- responses
\* content blocks of a model response: TextBlock and ToolUseBlock
TextBlock(t) == TextSeg(t)
ToolUseBlock(id, name, input) == ToolUseSeg(id, name, input)

Question == <<"q">>
NonEmptyTexts == { <<Blank>>, <<Blank, "a", Blank>> }
Texts == {<<>>} \cup NonEmptyTexts
RequestableNames == {"A", "boom", "ghost", "multi_tool_use_parallel"}

NameSeqs == UNION { [1..n -> RequestableNames] : n \in 0..MaxToolsPerTurn }
\* tool-use blocks of the response to the final call, whose names ai() never reads
FinalNameSeqs == UNION { [1..n -> {PlainTool}] : n \in 0..MaxToolsPerTurn }

ArgumentsFor(name) ==
    IF name = "multi_tool_use_parallel" THEN MultiArguments ELSE NoArguments

SpecialCount(names) == Cardinality({i \in DOMAIN names : names[i] # PlainTool})
\* The plain script of a query: every response asks for PlainTool only, text
\* comes only with a response that ends the query, and no attempt fails.  A
\* departure is a call of another tool, text beside tool calls inside the
\* loop, or a gateway call with failed attempts.
Variation(text, names, in_loop) ==
    SpecialCount(names) + (IF in_loop /\ text # <<>> /\ names # <<>> THEN 1 ELSE 0)

\* the content of a response: an optional text block, then the tool-use blocks
ResponseContent(text, names, firstId) ==
    (IF text = <<>> THEN <<>> ELSE <<TextBlock(text)>>)
    \o [i \in DOMAIN names |-> ToolUseBlock(firstId + i, names[i], ArgumentsFor(names[i]))]

\* ---------------------------------------------------------------- ai helpers
\* the loop over chat_response.content: text of the TextBlocks, concatenated
RECURSIVE TextOf(_)
TextOf(content) ==
    IF content = <<>> THEN <<>>
    ELSE (IF Head(content).type = "text" THEN Head(content).text ELSE <<>>)
         \o TextOf(Tail(content))

\* the loop over chat_response.content: the ToolUseBlocks, in order
RECURSIVE ExtractCalls(_)
ExtractCalls(content) ==
    IF content = <<>> THEN <<>>
    ELSE (IF Head(content).type = "tool_use"
          THEN << [name |-> Head(content).name, arguments |-> Head(content).input,
                   id |-> Head(content).id] >>
          ELSE <<>>)
         \o ExtractCalls(Tail(content))

\* func_call["arguments"].pop("spinner", None)
PopSpinner(arguments) == {p \in arguments : p[1] # "spinner"}

\* the text segment placed after the tool-use segments
NewMessageContent_TextLast(text, calls) ==
    [i \in DOMAIN calls |->
            ToolUseSeg(calls[i].id, calls[i].name, PopSpinner(calls[i].arguments))]
    \o (IF Strip(text) # <<>> THEN <<TextSeg(Strip(text))>> ELSE <<>>)

\* the assistant message built from the accumulated text and the calls
NewMessageContent(text, calls) ==
    (IF Strip(text) # <<>> THEN <<TextSeg(Strip(text))>> ELSE <<>>)
    \o [i \in DOMAIN calls |->
            ToolUseSeg(calls[i].id, calls[i].name, PopSpinner(calls[i].arguments))]

\* zip(function_calls, function_results): one user message per pair
ToolResultMessages(calls, results) ==
    [i \in 1..(IF Len(calls) < Len(results) THEN Len(calls) ELSE Len(results)) |->
        Message("user", <<ToolResultSeg(calls[i].id, results[i].result)>>)]

\* asyncio.gather: the result of the i-th awaitable goes to the i-th slot
NoResult == [id |-> NoId, result |-> <<>>]

\* results kept in the order the tasks finish
GatherStore_CompletionOrder(results, i, r) ==
    LET k == CHOOSE j \in DOMAIN results :
                /\ results[j] = NoResult
                /\ \A h \in 1..(j - 1) : results[h] # NoResult
    IN [results EXCEPT ![k] = r]

GatherStore(results, i, r) == [results EXCEPT ![i] = r]

\* the handler reached without the invoker's except clause in between
ExecuteFunction_Unprotected(registry, func_call) ==
    LET r == TryInvoke(registry, func_call.name, func_call.arguments) IN
    IF r.raised THEN r
    ELSE Returned([id |-> func_call.id, result |-> r.val.s])

\* execute_function: what one task ends with, the pair it returns or the
\* exception that leaves it
ExecuteFunction(registry, func_call) ==
    LET r == execute_function_by_name(registry, func_call.name, func_call.arguments) IN
    IF r.raised THEN r
    ELSE Returned([id |-> func_call.id, result |-> r.val.s])

\* the descriptor list as anthropic_chat_completion_request sends it
AnthropicTools(tls) == [i \in DOMAIN tls |-> [name |-> tls[i].function.name]]

\* how ai() ended
NoResultYet == [kind |-> "none", success |-> FALSE, key |-> "", val |-> <<>>]
AiReturn(success, key, val) ==
    [kind |-> "return", success |-> success, key |-> key, val |-> val]
AiRaise(msg) == [kind |-> "raise", success |-> FALSE, key |-> "", val |-> msg]

RetryErrorMsg == <<"RetryError">>

\* ---------------------------------------------------------------- control
\* the loop test off by one
LoopContinues_OffByOne(count) == count <= max_function_calls

\* while function_call_count < max_function_calls
LoopContinues(count) == count < max_function_calls

\* giving up one attempt early
StopRetrying_Early(n) == n >= StopAfterAttempt - 1

\* tenacity stop_after_attempt(3): no retry after this attempt
StopRetrying(n) == n >= StopAfterAttempt

\* the answer returned without .strip()
DirectAnswer_NoStrip(text) == AiReturn(TRUE, "response", text)

\* if not function_calls: return True, {"response": text_content.strip()}
DirectAnswer(text) == AiReturn(TRUE, "response", Strip(text))

\* the tail of ai() without the test of the final text
FinalAnswer_NoTest(content) == AiReturn(TRUE, "response", Strip(TextOf(content)))

\* the tail of ai(): the answer formed from the final response
FinalAnswer(content) ==
    LET final_text_content == TextOf(content) IN
    IF final_text_content = <<>>
    THEN AiReturn(FALSE, "error", <<"No text content in Anthropic final response">>)
    ELSE AiReturn(TRUE, "response", Strip(final_text_content))

\* the final call sent without tools
FinalCallTools_None(tls) == <<>>

\* tools=tools on the final call
FinalCallTools(tls) == AnthropicTools(tls)

\* process_shell_query without its except clause
ProcessShellQuery_NoExcept(r) ==
    IF r.kind = "raise" THEN r
    ELSE IF r.success
         THEN [kind |-> "return", success |-> TRUE, key |-> "explanation", val |-> r.val]
         ELSE [kind |-> "return", success |-> FALSE, key |-> "error", val |-> r.val]

\* process_shell_query: ai()'s outcome turned into (success, results)
ProcessShellQuery(r) ==
    IF r.kind = "raise"
    THEN [kind |-> "return", success |-> FALSE, key |-> "error", val |-> <<"Error: ">> \o r.val]
    ELSE IF r.success
         THEN IF r.key = "response"
              THEN [kind |-> "return", success |-> TRUE, key |-> "explanation", val |-> r.val]
              ELSE [kind |-> "return", success |-> FALSE, key |-> "error",
                    val |-> <<"An unexpected response format was received.">>]
         ELSE [kind |-> "return", success |-> FALSE, key |-> "error",
               val |-> IF r.key = "error" THEN r.val ELSE <<"An unknown error occurred.">>]

\* the last turn taken back when the query has failed
MainAppend_PopOnFailure(transcript, r) ==
    IF r.kind = "return" /\ r.success /\ r.key = "explanation"
    THEN Append(transcript, Message("assistant", <<TextSeg(r.val)>>))
    ELSE SubSeq(transcript, 1, Len(transcript) - 1)

\* main: conversation_history after process_shell_query has returned
MainAppend(transcript, r) ==
    IF r.kind = "return" /\ r.success /\ r.key = "explanation"
    THEN Append(transcript, Message("assistant", <<TextSeg(r.val)>>))
    ELSE transcript

\* the tool results appended before the assistant message
AppendTurns_ResultsFirst(transcript, text, calls, results) ==
    transcript
        \o ToolResultMessages(calls, results)
        \o <<Message("assistant", NewMessageContent(text, calls))>>

\* the oldest turn dropped to make room for the new ones
AppendTurns_DropOldest(transcript, text, calls, results) ==
    Tail(transcript)
        \o <<Message("assistant", NewMessageContent(text, calls))>>
        \o ToolResultMessages(calls, results)

\* the transcript after one tool-bearing iteration
AppendTurns(transcript, text, calls, results) ==
    LET new_message_content == NewMessageContent(text, calls) IN
    transcript
        \o (IF new_message_content # <<>>
            THEN <<Message("assistant", new_message_content)>> ELSE <<>>)
        \o ToolResultMessages(calls, results)

ModelMayAnswer(text, names, in_loop) ==
    /\ text \in Texts
    /\ names \in (IF in_loop THEN NameSeqs ELSE FinalNameSeqs)
    /\ variations + Variation(text, names, in_loop) <= MaxVariations

ModelSide(text, names, in_loop) ==
    /\ next_id' = next_id + Len(names)
    /\ variations' = variations + Variation(text, names, in_loop)
    /\ responses' = Append(responses, ResponseContent(text, names, next_id))

\* ---------------------------------------------------------------- Init
Init ==
    /\ pc = "prompt"
    /\ messages = <<>>
    /\ text_content = <<>>
    /\ function_call_count = 0
    /\ function_calls = <<>>
    /\ function_results = <<>>
    /\ running = {}
    /\ attempt = 0
    /\ final_response = <<>>
    /\ ai_result = NoResultYet
    /\ psq_result = NoResultYet
    /\ tools = StartupRegistry.tools
    /\ callable_registry = StartupRegistry.callable_registry
    /\ scan_log = <<>>
    /\ scanned = <<>>
    /\ sent_tools = <<>>
    /\ dispatched = 0
    /\ iterations = 0
    /\ responses = <<>>
    /\ final_call_made = FALSE
    /\ out_of_order = FALSE
    /\ next_id = 0
    /\ variations = 0

\* ---------------------------------------------------------------- actions
\* Each action is one run of the event loop's single flow of control, from
\* the await that resumes it to the await at which it suspends next.

\* ai() returns or raises; process_shell_query turns that into its result;
\* main appends a successful explanation to conversation_history and prompts
Finish(result, transcript) ==
    /\ ai_result' = result
    /\ psq_result' = ProcessShellQuery(result)
    /\ messages' = MainAppend(transcript, ProcessShellQuery(result))
    /\ pc' = "done"

\* the loop test: the gateway is called inside the loop or, after the loop,
\* for the final time; either way ai() suspends in the gateway
CallModel ==
    /\ pc = "loop"
    /\ pc' = IF LoopContinues(function_call_count)
             THEN "awaiting_model" ELSE "awaiting_final"
    /\ attempt' = 1
    /\ sent_tools' = Append(sent_tools,
            IF LoopContinues(function_call_count)
            THEN AnthropicTools(tools) ELSE FinalCallTools(tools))
    /\ final_call_made' = ~LoopContinues(function_call_count)
    /\ out_of_order' = FALSE
    /\ UNCHANGED <<messages, text_content, function_call_count, function_calls,
                   function_results, running, final_response, ai_result,
                   psq_result, tools, callable_registry, scan_log, scanned, dispatched, iterations,
                   responses, next_id, variations>>

\* main: the question is appended to conversation_history, then
\* process_shell_query is called and calls ai() with that list as history
MainPrompt ==
    /\ pc = "prompt"
    /\ messages' = Append(messages, Message("user", <<TextSeg(Question)>>))
    /\ pc' = "calling_ai"
    /\ UNCHANGED <<text_content, function_call_count, function_calls,
                   function_results, running, attempt,
                   final_response, ai_result, psq_result, tools, callable_registry, scan_log, scanned,
                   sent_tools, dispatched, iterations, responses, final_call_made,
                   out_of_order, next_id, variations>>

\* ai() up to its loop: messages is the history it was given (the query
\* parameter is not read), the text and the counter start empty
AiEnter ==
    /\ pc = "calling_ai"
    /\ text_content' = <<>>
    /\ function_call_count' = 0
    /\ pc' = "loop"
    /\ UNCHANGED <<messages, function_calls, function_results, running, attempt,
                   final_response, ai_result, psq_result, tools, callable_registry, scan_log, scanned,
                   sent_tools, dispatched, iterations, responses, final_call_made,
                   out_of_order, next_id, variations>>

\* one attempt of anthropic_chat_completion_request fails: tenacity retries,
\* or gives up with RetryError, which ai() does not catch
AttemptFails ==
    /\ pc \in {"awaiting_model", "awaiting_final"}
    /\ attempt = 1 => variations < MaxVariations
    /\ variations' = IF attempt = 1 THEN variations + 1 ELSE variations
    /\ IF StopRetrying(attempt)
       THEN /\ Finish(AiRaise(RetryErrorMsg), messages)
            /\ UNCHANGED attempt
       ELSE /\ attempt' = attempt + 1
            /\ UNCHANGED <<pc, ai_result, psq_result, messages>>
    /\ UNCHANGED <<text_content, function_call_count, function_calls,
                   function_results, running, final_response, tools, out_of_order,
                   callable_registry, scan_log, scanned, sent_tools, dispatched, iterations,
                   responses, final_call_made, next_id>>

\* an attempt inside the loop succeeds: the response is split into text and
\* calls; without calls ai() returns, with calls every execute_function task
\* is started and ai() waits in asyncio.gather
LoopResponse(text, names) ==
    /\ ModelMayAnswer(text, names, TRUE)
    /\ LET content == ResponseContent(text, names, next_id)
           calls == ExtractCalls(content)
           accumulated == text_content \o TextOf(content)
       IN /\ text_content' = accumulated
          /\ function_calls' = calls
          /\ IF calls = <<>>
             THEN /\ Finish(DirectAnswer(accumulated), messages)
                  /\ UNCHANGED <<function_results, running, dispatched, attempt>>
             ELSE /\ function_results' = [i \in DOMAIN calls |-> NoResult]
                  /\ running' = DOMAIN calls
                  /\ dispatched' = dispatched + Len(calls)
                  /\ pc' = "gather"
                  /\ attempt' = 0
                  /\ UNCHANGED <<ai_result, psq_result, messages>>
    /\ ModelSide(text, names, TRUE)
    /\ UNCHANGED out_of_order
    /\ UNCHANGED <<function_call_count, final_response, tools, callable_registry, scan_log, scanned,
                   sent_tools, iterations, final_call_made>>

ModelResponds ==
    /\ pc = "awaiting_model"
    /\ \E text \in Texts, names \in NameSeqs : LoopResponse(text, names)

\* one execute_function task finishes, in any order among those running
\* (an exception leaving a task would leave gather and ai() with it)
ToolCompletes(i) ==
    /\ pc = "gather"
    /\ i \in running
    /\ running' = running \ {i}
    /\ out_of_order' = (out_of_order \/ \E j \in running : j < i)
    /\ LET r == ExecuteFunction(callable_registry, function_calls[i]) IN
       IF r.raised
       THEN /\ Finish(AiRaise(r.msg), messages)
            /\ UNCHANGED function_results
       ELSE /\ function_results' = GatherStore(function_results, i, r.val)
            /\ UNCHANGED <<pc, messages, ai_result, psq_result>>
    /\ UNCHANGED <<text_content, function_call_count, function_calls,
                   attempt, final_response, tools, callable_registry, scan_log, scanned, sent_tools,
                   dispatched, iterations, responses, final_call_made, next_id,
                   variations>>

\* the counter left as it was
CallsAfter_NotAdvanced(count, calls) == count

\* the counter advanced by one per iteration
CallsAfter_PerIteration(count, calls) == count + 1

\* function_call_count += len(function_calls)
CallsAfter(count, calls) == count + Len(calls)

\* gather returning as soon as one task has finished
GatherDone_FirstCompleted(run, calls) == run # DOMAIN calls

\* await asyncio.gather(...) returns when every task has finished
GatherDone(run, calls) == run = {}

\* gather has returned: the assistant message, the tool results, the counter
GatherReturns ==
    /\ pc = "gather"
    /\ GatherDone(running, function_calls)
    /\ messages' = AppendTurns(messages, text_content, function_calls, function_results)
    /\ function_call_count' = CallsAfter(function_call_count, function_calls)
    /\ iterations' = iterations + 1
    /\ pc' = "loop"
    /\ UNCHANGED <<text_content, function_calls, function_results, running, attempt,
                   final_response, ai_result, psq_result, tools, callable_registry, scan_log, scanned,
                   sent_tools, dispatched, responses, final_call_made,
                   out_of_order, next_id, variations>>

\* an attempt of the final call succeeds: only its text is read
FinalResponse(text, names) ==
    /\ ModelMayAnswer(text, names, FALSE)
    /\ LET content == ResponseContent(text, names, next_id) IN
          /\ final_response' = content
          /\ Finish(FinalAnswer(content), messages)
    /\ ModelSide(text, names, FALSE)
    /\ UNCHANGED out_of_order
    /\ UNCHANGED <<text_content, function_call_count, function_calls,
                   function_results, running, attempt, tools, callable_registry, scan_log, scanned,
                   sent_tools, dispatched, iterations, final_call_made>>

FinalResponds ==
    /\ pc = "awaiting_final"
    /\ \E text \in Texts, names \in FinalNameSeqs : FinalResponse(text, names)

ToolCompletesAny ==
    /\ pc = "gather"
    /\ \E i \in running : ToolCompletes(i)

Next ==
    \/ MainPrompt
    \/ AiEnter
    \/ CallModel
    \/ AttemptFails
    \/ ModelResponds
    \/ ToolCompletesAny
    \/ GatherReturns
    \/ FinalResponds

Spec == Init /\ [][Next]_vars

\* ------------------------------------------------------------ the session
\* main's while True: after a query, whatever its outcome, the shell prompts
\* again with conversation_history as it is; the locals of ai() and of
\* process_shell_query are gone.  A follow-up query is taken while the
\* history is short, and follows the plain script.
NextQuery ==
    /\ pc = "done"
    /\ Len(messages) <= MaxHistory
    /\ pc' = "prompt"
    /\ text_content' = <<>>
    /\ function_call_count' = 0
    /\ function_calls' = <<>>
    /\ function_results' = <<>>
    /\ attempt' = 0
    /\ final_response' = <<>>
    /\ ai_result' = NoResultYet
    /\ psq_result' = NoResultYet
    /\ sent_tools' = <<>>
    /\ dispatched' = 0
    /\ iterations' = 0
    /\ responses' = <<>>
    /\ final_call_made' = FALSE
    /\ out_of_order' = FALSE
    /\ variations' = MaxVariations
    /\ UNCHANGED <<messages, running, tools, callable_registry, scan_log, scanned,
                   next_id>>

SessionNext == Next \/ NextQuery

SessionSpec == Init /\ [][SessionNext]_vars

\* ------------------------------------------------- the import of the tools
\* function_wrapper.py while it is imported: tools and callable_registry
\* start empty and every decorated function a tools module defines is
\* registered by FunctionWrapper.__init__, whatever names the modules use
RegisterableNames == {"A", "B", "boom"}
RegisterableFuncs == { Handler(c, FALSE, b) : c \in BOOLEAN, b \in {"A", "B", "boom"} }

RegistryInit ==
    /\ pc = "import"
    /\ messages = <<>>
    /\ text_content = <<>>
    /\ function_call_count = 0
    /\ function_calls = <<>>
    /\ function_results = <<>>
    /\ running = {}
    /\ attempt = 0
    /\ final_response = <<>>
    /\ ai_result = NoResultYet
    /\ psq_result = NoResultYet
    /\ tools = <<>>
    /\ callable_registry = <<>>
    /\ scan_log = <<>>
    /\ scanned = <<>>
    /\ sent_tools = <<>>
    /\ dispatched = 0
    /\ iterations = 0
    /\ responses = <<>>
    /\ final_call_made = FALSE
    /\ out_of_order = FALSE
    /\ next_id = 0
    /\ variations = 0

\* @function_info_decorator applied to a function named `name`
Register(name, func) ==
    /\ pc = "import"
    /\ Len(tools) + Len(scan_log) < MaxRegistrations
    /\ LET reg == FunctionWrapperInit(
                    [callable_registry |-> callable_registry, tools |-> tools],
                    name, func)
       IN /\ callable_registry' = reg.callable_registry
          /\ tools' = reg.tools
    /\ UNCHANGED <<pc, messages, text_content, function_call_count, function_calls,
                   function_results, running, attempt, final_response, ai_result,
                   psq_result, sent_tools, dispatched, iterations, responses,
                   final_call_made, out_of_order, next_id, variations,
                   scan_log, scanned>>

\* A tools module: one decorated function, and whether executing the module
\* raises, before the decorator has run or after it.
Outcomes == {"ok", "fails_before", "fails_after"}
Unit(name, func, outcome) == [name |-> name, func |-> func, outcome |-> outcome]

\* module.__loader__.exec_module(module)
ExecModule(reg, unit) ==
    [reg |-> IF unit.outcome = "fails_before" THEN reg
             ELSE FunctionWrapperInit(reg, unit.name, unit.func),
     raised |-> unit.outcome # "ok"]

\* the body of the scan's loop without its try/except
LoadModule_NoExcept(reg, log, unit) ==
    LET r == ExecModule(reg, unit) IN
    [reg |-> r.reg, log |-> log, raised |-> r.raised]

\* the body of the scan's loop: try ... except Exception: logging.error(...)
LoadModule(reg, log, unit) ==
    LET r == ExecModule(reg, unit) IN
    [reg |-> r.reg,
     log |-> IF r.raised THEN Append(log, <<"Error loading module ", unit.name>>) ELSE log,
     raised |-> FALSE]

\* load_functions_from_directory goes through one more module of the directory
ScanModule(unit) ==
    /\ pc = "import"
    /\ Len(tools) + Len(scan_log) < MaxRegistrations
    /\ LET r == LoadModule([callable_registry |-> callable_registry, tools |-> tools],
                           scan_log, unit)
       IN /\ callable_registry' = r.reg.callable_registry
          /\ tools' = r.reg.tools
          /\ scan_log' = r.log
          /\ pc' = IF r.raised THEN "import_raised" ELSE "import"
    /\ scanned' = Append(scanned, unit)
    /\ UNCHANGED <<messages, text_content, function_call_count, function_calls,
                   function_results, running, attempt, final_response, ai_result,
                   psq_result, sent_tools, dispatched, iterations, responses,
                   final_call_made, out_of_order, next_id, variations>>

ScanUnit ==
    \E name \in RegisterableNames, func \in RegisterableFuncs, outcome \in Outcomes :
        ScanModule(Unit(name, func, outcome))

Decorate == \E name \in RegisterableNames, func \in RegisterableFuncs : Register(name, func)

RegistryNext == Decorate \/ ScanUnit

RegistrySpec == RegistryInit /\ [][RegistryNext]_vars

\* ================================================================ claims
ToolUsesOf(content) == SelectSeq(content, LAMBDA b : b.type = "tool_use")
LastResponse == responses[Len(responses)]
Awaiting == pc \in {"awaiting_model", "awaiting_final"}
\* the state right after one tool-bearing iteration has appended its turns
JustCollected == pc = "loop" /\ iterations > 0
HasToolResult(m) == \E k \in DOMAIN m.content : m.content[k].type = "tool_result"
ToolResultCount == Cardinality({k \in DOMAIN messages : HasToolResult(messages[k])})
Succeeded == ai_result.kind = "return" /\ ai_result.success
Invoke(name, kwargs) == execute_function_by_name(callable_registry, name, kwargs).val.s

\* json.loads of an error payload
RECURSIVE JsonUnescape(_)
JsonUnescape(s) ==
    IF s = <<>> THEN <<>>
    ELSE IF Head(s) = Backslash /\ Len(s) >= 2
         THEN <<s[2]>> \o JsonUnescape(SubSeq(s, 3, Len(s)))
         ELSE <<Head(s)>> \o JsonUnescape(Tail(s))
ErrorPrefix == <<"{">> \o JsonStr(<<"error">>) \o <<":", Blank, Quote>>
IsErrorPayload(p) ==
    /\ Len(p) >= Len(ErrorPrefix) + 2
    /\ SubSeq(p, 1, Len(ErrorPrefix)) = ErrorPrefix
    /\ SubSeq(p, Len(p) - 1, Len(p)) = <<Quote, "}">>
ErrorMessageOf(p) == JsonUnescape(SubSeq(p, Len(ErrorPrefix) + 1, Len(p) - 2))

\* C1: the tool invocations dispatched in one ai() invocation, all loop
\* iterations together, number at most max_function_calls (6).
C1_DispatchedWithinBudget == dispatched <= max_function_calls

\* C2: when every model response of the query carried empty text, ai() does
\* not end in success; in particular it never returns success with an empty
\* response string.
C2_EmptyTextFails ==
    (pc = "done" /\ \A k \in DOMAIN responses : TextOf(responses[k]) = <<>>)
        => ~Succeeded

\* C3: after a model turn with n >= 1 tool requests, whatever the order in
\* which the n invocations finished, the last n turns of the transcript are
\* tool-result turns in the order of the requests, the i-th carrying the id
\* of the i-th request and the payload the invoker yields for that request.
C3_ResultsInRequestOrder ==
    JustCollected =>
        LET reqs == ToolUsesOf(LastResponse)
            n == Len(reqs)
        IN /\ n >= 1
           /\ Len(messages) >= n
           /\ \A i \in 1..n :
                LET m == messages[Len(messages) - n + i] IN
                /\ m.role = "user"
                /\ Len(m.content) = 1
                /\ m.content[1].type = "tool_result"
                /\ m.content[1].id = reqs[i].id
                /\ m.content[1].content = Invoke(reqs[i].name, reqs[i].input)

\* C3 witness: two requests with different payloads, the second finished first
C3_Witness ==
    /\ JustCollected
    /\ out_of_order
    /\ LET reqs == ToolUsesOf(LastResponse) IN
       Invoke(reqs[1].name, reqs[1].input) # Invoke(reqs[2].name, reqs[2].input)

RaisingName(name) ==
    /\ name \in DOMAIN callable_registry
    /\ CallHandler(callable_registry[name], NoArguments).raised

\* C4: no exception of a handler leaves execute_function_by_name: ai() is
\* left by an exception only through the gateway; the call of a handler that
\* throws yields an error payload whose "error" field decodes to the
\* exception message; and after the iteration the loop is at its next model
\* call with that payload recorded as the tool result of that request.
C4_InvokeNeverRaises ==
    /\ ai_result.kind = "raise" => ai_result.val = RetryErrorMsg
    /\ JustCollected => ENABLED CallModel
    /\ JustCollected =>
        LET reqs == ToolUsesOf(LastResponse)
            n == Len(reqs)
        IN \A i \in 1..n :
             RaisingName(reqs[i].name) =>
                LET payload == messages[Len(messages) - n + i].content[1].content IN
                /\ IsErrorPayload(payload)
                /\ ErrorMessageOf(payload) =
                      CallHandler(callable_registry[reqs[i].name], NoArguments).msg

\* C4 witness: an iteration with a throwing handler has been collected
C4_Witness ==
    /\ JustCollected
    /\ \E i \in DOMAIN function_calls : RaisingName(function_calls[i].name)

\* C5: multi_tool_use_parallel invoked through execute_function_by_name on
\* the entries A, B yields the list of A's result and B's result, in that
\* order.
C5_ParallelResultsOrdered ==
    \A i \in DOMAIN function_calls :
        ( /\ function_calls[i].name = "multi_tool_use_parallel"
          /\ function_calls[i].arguments = MultiArguments
          /\ function_results[i] # NoResult )
        => function_results[i].result =
              JsonDumps(ListVal(<<Invoke(ToolUses[1], NoArguments),
                                  Invoke(ToolUses[2], NoArguments)>>)).val.s

AllRequestTwo == \A k \in DOMAIN responses : Len(ToolUsesOf(responses[k])) = 2

\* C6: while every response requests exactly 2 tool calls and the gateway
\* does not give up, the query makes at most 3 tool-bearing iterations, and
\* it ends after exactly 3 of them, 6 invocations and 4 model calls, the
\* fourth being the final call.
C6_ThreeIterationsThenFinal ==
    (AllRequestTwo /\ ai_result.kind # "raise") =>
        /\ iterations <= 3
        /\ dispatched <= 6
        /\ Len(sent_tools) <= 4
        /\ final_call_made => iterations = 3 /\ dispatched = 6 /\ Len(sent_tools) = 4
        /\ pc = "done" =>
              /\ final_call_made
              /\ Len(responses) = 4

\* C6 witness: such a query has ended
C6_Witness == pc = "done" /\ AllRequestTwo /\ Len(responses) = 4

FirstIsTextOnly ==
    /\ Len(responses) >= 1
    /\ ToolUsesOf(responses[1]) = <<>>
    /\ TextOf(responses[1]) # <<>>

\* C7: a first response without tool calls and with non-empty text ends the
\* query at once: ai() returns success with that text trimmed, after one
\* model call, no tool invocation, and with no turn added to the transcript
\* between the question and the reply main appends.
C7_DirectAnswerAtOnce ==
    FirstIsTextOnly =>
        /\ pc = "done"
        /\ ai_result = AiReturn(TRUE, "response", Strip(TextOf(responses[1])))
        /\ Len(responses) = 1
        /\ Len(sent_tools) = 1
        /\ dispatched = 0
        /\ iterations = 0
        /\ messages = << Message("user", <<TextSeg(Question)>>),
                         Message("assistant", <<TextSeg(Strip(TextOf(responses[1])))>>) >>

\* C7 witness: the text of the first response had blanks to trim
C7_Witness ==
    /\ FirstIsTextOnly
    /\ Strip(TextOf(responses[1])) # TextOf(responses[1])
    /\ Strip(TextOf(responses[1])) # <<>>

\* C8: once the final call is issued no tool is dispatched and no tool turn
\* is appended; the tool-use blocks of its response appear nowhere in the
\* transcript; the answer is the trimmed text of that response alone (a
\* failure when it has none); every call, the final one included, was sent
\* the same non-empty tool list.
C8_FinalCallDispatchesNothing ==
    final_call_made =>
        /\ \A k \in DOMAIN sent_tools :
                sent_tools[k] = AnthropicTools(tools) /\ sent_tools[k] # <<>>
        /\ dispatched = function_call_count
        /\ running = {}
        /\ ToolResultCount = function_call_count
        /\ (pc = "done" /\ ai_result.kind = "return") =>
              /\ final_response = LastResponse
              /\ \A j \in DOMAIN ToolUsesOf(final_response) :
                    \A k \in DOMAIN messages : \A h \in DOMAIN messages[k].content :
                        messages[k].content[h].id # ToolUsesOf(final_response)[j].id
              /\ ai_result = IF TextOf(final_response) = <<>>
                             THEN AiReturn(FALSE, "error",
                                    <<"No text content in Anthropic final response">>)
                             ELSE AiReturn(TRUE, "response", Strip(TextOf(final_response)))

\* C8 witness: the final response held text and a tool-use block
C8_Witness ==
    /\ pc = "done"
    /\ final_call_made
    /\ Succeeded
    /\ ToolUsesOf(final_response) # <<>>

\* the outcome of a query as its responses alone determine it
OutcomeOf(resps) ==
    IF final_call_made
    THEN (IF TextOf(resps[Len(resps)]) = <<>>
          THEN AiReturn(FALSE, "error", <<"No text content in Anthropic final response">>)
          ELSE AiReturn(TRUE, "response", Strip(TextOf(resps[Len(resps)]))))
    ELSE AiReturn(TRUE, "response", Strip(TextOf(Concat(resps))))

\* C9: a gateway call makes at most 3 attempts and gives up only after the
\* third has failed; a response that arrives on a later attempt is handled
\* as one that arrived at once: the outcome of the query is the one its
\* responses determine, success when the response is a text answer.
C9_RetryThenSucceed ==
    /\ Awaiting => attempt \in 1..3
    /\ ai_result.kind = "raise" => attempt = 3
    /\ (pc = "done" /\ ai_result.kind = "return") =>
          /\ attempt \in 1..3
          /\ ai_result = OutcomeOf(responses)
          /\ psq_result.success = ai_result.success

\* C9 witness: a text answer that arrived on the third attempt
C9_Witness ==
    /\ pc = "done"
    /\ attempt = 3
    /\ Succeeded
    /\ ai_result.val # <<>>
    /\ psq_result.success

\* C10: when the third attempt of a gateway call has failed the query is
\* over: no tool is running, the failed call is the last one issued,
\* process_shell_query has returned (False, {error}), and from then on no
\* attempt, model call or tool invocation is made.
C10_GatewayFailureEndsQuery ==
    /\ [](ai_result.kind = "raise" =>
            /\ pc = "done"
            /\ attempt = 3
            /\ running = {}
            /\ Len(sent_tools) = Len(responses) + 1
            /\ dispatched = function_call_count
            /\ psq_result.kind = "return"
            /\ ~psq_result.success
            /\ psq_result.key = "error")
    /\ [][ai_result.kind = "raise" =>
            UNCHANGED <<attempt, sent_tools, dispatched, responses, ai_result, psq_result>>]_vars

\* C10 witness: the gateway gave up after tools had already run
C10_Witness == pc = "done" /\ ai_result.kind = "raise" /\ iterations >= 1

\* C11: no fault leaves ai() as a raised exception: a gateway call that has
\* exhausted its retries and an exhausted budget both reach ai()'s caller as
\* a returned failure (success false, an error), never as a raise.
C11_NoRaiseAcrossAi ==
    pc = "done" =>
        /\ ai_result.kind = "return"
        /\ ~ai_result.success => ai_result.key = "error"

\* C12: when the response to the final call holds no text, ai() returns
\* (False, {error}) with the application's own message, never a success;
\* process_shell_query passes the failure on and main appends no reply.
C12_NoFinalTextFails ==
    (pc = "done" /\ final_call_made /\ ai_result.kind = "return"
        /\ TextOf(final_response) = <<>>) =>
        /\ ~ai_result.success
        /\ ai_result.key = "error"
        /\ ai_result.val = <<"No text content in Anthropic final response">>
        /\ ~psq_result.success
        /\ psq_result.key = "error"
        /\ psq_result.val = ai_result.val
        /\ messages[Len(messages)].role = "user"

\* C12 witness: a final response made of tool-use blocks only
C12_Witness ==
    /\ pc = "done"
    /\ final_call_made
    /\ ai_result.kind = "return"
    /\ TextOf(final_response) = <<>>
    /\ ToolUsesOf(final_response) # <<>>

NotFoundPayload(name) ==
    <<"{", Quote, "error", Quote, ":", Blank, Quote,
      "Function ", name, " not found in registry", Quote, "}">>

\* C13: a request for a name the registry does not hold yields the payload
\* {"error": "Function <name> not found in registry"} as the tool result of
\* that request; every request of the same turn has its result turn, the
\* known ones with what their handler yields; and the loop goes on to its
\* next model call.
C13_UnknownNameIsPayload ==
    JustCollected =>
        LET reqs == ToolUsesOf(LastResponse)
            n == Len(reqs)
            result(i) == messages[Len(messages) - n + i].content[1]
        IN /\ ENABLED CallModel
           /\ ai_result.kind = "none"
           /\ \A i \in 1..n :
                /\ result(i).type = "tool_result"
                /\ result(i).id = reqs[i].id
                /\ reqs[i].name \notin DOMAIN callable_registry =>
                      result(i).content = NotFoundPayload(reqs[i].name)
                /\ reqs[i].name = PlainTool => result(i).content = <<"ra">>

\* C13 witness: an unknown name requested beside a known one
C13_Witness ==
    /\ JustCollected
    /\ \E i, j \in DOMAIN function_calls :
            /\ function_calls[i].name \notin DOMAIN callable_registry
            /\ function_calls[j].name = PlainTool

\* C14: tool names are unique after any sequence of registrations: the
\* descriptor list holds at most one descriptor per name, one per registry
\* entry (a registration under a name already registered having failed and
\* changed nothing).
C14_NamesUnique ==
    /\ \A i, j \in DOMAIN tools :
            tools[i].function.name = tools[j].function.name => i = j
    /\ Len(tools) = Cardinality(DOMAIN callable_registry)

\* the assistant turn and the result turns the last iteration appended
LastAssistantTurn == messages[Len(messages) - Len(function_calls)]
UserQuery == Message("user", <<TextSeg(Question)>>)

\* C15: the answer of a successful query is the trimmed text of the response
\* that ended it and nothing else, and the text segment of an iteration's
\* assistant turn is the trimmed text of that iteration's response: text of
\* an earlier tool-bearing iteration appears in neither.
C15_AnswerFromLastResponseOnly ==
    /\ (pc = "done" /\ Succeeded) => ai_result.val = Strip(TextOf(LastResponse))
    /\ JustCollected =>
          \A h \in DOMAIN LastAssistantTurn.content :
              LastAssistantTurn.content[h].type = "text" =>
                  LastAssistantTurn.content[h].text = Strip(TextOf(LastResponse))

\* C16: in every state of the transcript, each tool-result turn follows an
\* assistant turn with nothing but tool-result turns in between, and its id
\* is the id of a tool-use segment of that assistant turn.
C16_ResultsAnswerPrecedingTurn ==
    \A k \in DOMAIN messages :
        HasToolResult(messages[k]) =>
            \E a \in 1..(k - 1) :
                /\ messages[a].role = "assistant"
                /\ \A b \in (a + 1)..(k - 1) : HasToolResult(messages[b])
                /\ \A g \in DOMAIN messages[k].content :
                      messages[k].content[g].type = "tool_result"
                      /\ \E h \in DOMAIN messages[a].content :
                            /\ messages[a].content[h].type = "tool_use"
                            /\ messages[a].content[h].id = messages[k].content[g].id

\* C16 witness: the transcript holds the turns of two iterations
C16_Witness == JustCollected /\ iterations >= 2 /\ ToolResultCount >= 3

\* C17: the transcript only grows: every step leaves the turns already in
\* it in place and unchanged, so the transcript of an earlier moment of the
\* query, the history it started with included, is a prefix of the current one.
C17_TranscriptAppendOnly ==
    [][/\ Len(messages') >= Len(messages)
       /\ SubSeq(messages', 1, Len(messages)) = messages]_vars

\* C17 witness: a query that appended the turns of an iteration and a reply
C17_Witness == pc = "done" /\ Succeeded /\ iterations >= 1 /\ Len(messages) >= 4

\* C18: an iteration with n tool requests appends n + 1 turns: an assistant
\* turn holding the accumulated text, trimmed, as its first segment when that
\* is not empty and then the n tool-use segments in the order of the
\* requests, followed by n tool-result turns, one per request in that order.
C18_IterationAppendsTurns ==
    /\ pc \in {"loop", "awaiting_model", "awaiting_final", "gather"} =>
          Len(messages) = 1 + iterations + function_call_count
    /\ JustCollected =>
          LET reqs == ToolUsesOf(LastResponse)
              n == Len(reqs)
              turn == messages[Len(messages) - n]
              t == IF Strip(text_content) # <<>> THEN 1 ELSE 0
          IN /\ n >= 1
             /\ turn.role = "assistant"
             /\ Len(turn.content) = t + n
             /\ t = 1 => turn.content[1].type = "text"
                          /\ turn.content[1].text = Strip(text_content)
             /\ \A i \in 1..n :
                    /\ turn.content[t + i].type = "tool_use"
                    /\ turn.content[t + i].id = reqs[i].id
                    /\ turn.content[t + i].name = reqs[i].name
                    /\ turn.content[t + i].input = reqs[i].input
                    /\ messages[Len(messages) - n + i].role = "user"
                    /\ Len(messages[Len(messages) - n + i].content) = 1
                    /\ messages[Len(messages) - n + i].content[1].type = "tool_result"
                    /\ messages[Len(messages) - n + i].content[1].id = reqs[i].id

\* C18 witness: an iteration with text and two requests
C18_Witness ==
    /\ JustCollected
    /\ Len(function_calls) = 2
    /\ LastAssistantTurn.content[1].type = "text"

\* C19: the first step of ai() appends the user query as a user turn to the
\* transcript it was given.
C19_AiAppendsQuery ==
    [][pc = "calling_ai" => messages' = Append(messages, UserQuery)]_vars

\* C20: no model call is waiting while a tool invocation runs, and a step
\* taken while at least one invocation is running leaves the transcript,
\* the call counter and the list of model calls issued as they were.
C20_FanInBarrier ==
    /\ [](running # {} => pc = "gather")
    /\ [][running # {} =>
            UNCHANGED <<messages, function_call_count, sent_tools, iterations>>]_vars

\* C20 witness: one invocation has finished while another is still running
C20_Witness ==
    /\ pc = "gather"
    /\ running # {}
    /\ running # DOMAIN function_calls

FailedUnits == {k \in DOMAIN scanned : scanned[k].outcome # "ok"}
Offered(name) == \E i \in DOMAIN tools : tools[i].function.name = name

\* C22: the scan of the tools directory never raises and never stops at a
\* module that fails to load: each failure is logged once, the scan can go
\* on to the next module, and the function of every module that loaded
\* without error is in the registry and in the descriptor list.
C22_ScanToleratesFailures ==
    /\ pc = "import"
    /\ Len(scan_log) = Cardinality(FailedUnits)
    /\ Len(tools) + Len(scan_log) < MaxRegistrations => ENABLED ScanUnit
    /\ \A k \in DOMAIN scanned :
          scanned[k].outcome = "ok" =>
              /\ scanned[k].name \in DOMAIN callable_registry
              /\ Offered(scanned[k].name)

\* C22 witness: a module that loaded after another one had failed
C22_Witness ==
    \E k, j \in DOMAIN scanned :
        /\ k < j
        /\ scanned[k].outcome # "ok"
        /\ scanned[j].outcome = "ok"
        /\ scanned[j].name # scanned[k].name
        /\ callable_registry[scanned[j].name] = scanned[j].func

\* C25: after any sequence of registrations every name of the descriptor
\* list has a handler in callable_registry, so invoking a name the model
\* was offered never yields the "not found in registry" payload.
C25_OfferedNamesHaveHandlers ==
    \A i \in DOMAIN tools :
        /\ tools[i].function.name \in DOMAIN callable_registry
        /\ Invoke(tools[i].function.name, NoArguments)
              # NotFoundPayload(tools[i].function.name)

\* C25 witness: two names registered, one of them by a module that then failed
C25_Witness ==
    /\ Len(tools) >= 2
    /\ tools[1].function.name # tools[2].function.name
    /\ \E k \in DOMAIN scanned : scanned[k].outcome = "fails_after"

FailingName(name) == name \notin DOMAIN callable_registry \/ RaisingName(name)

\* C21: a failing invocation (a handler that raises, an unknown name) does
\* not end the iteration or its siblings: tools run only inside the gather,
\* the gather holds one slot per request, every finished invocation has left
\* its {id, result} pair in its own slot, the failing ones an error payload
\* and the others what their handler yields, and the unfinished ones can
\* still finish.
C21_SiblingIsolation ==
    /\ pc = "done" => running = {}
    /\ function_calls # <<>> => Len(function_results) = Len(function_calls)
    /\ (pc = "gather" /\ running # {}) => ENABLED ToolCompletesAny
    /\ \A i \in DOMAIN function_calls :
          i \notin running =>
              /\ function_results[i].id = function_calls[i].id
              /\ FailingName(function_calls[i].name) =>
                    IsErrorPayload(function_results[i].result)
              /\ function_calls[i].name = PlainTool =>
                    function_results[i].result = <<"ra">>

\* C21 witness: the first request failed and the second one ran to its result
C21_Witness ==
    /\ pc = "gather"
    /\ running = {}
    /\ Len(function_calls) = 2
    /\ FailingName(function_calls[1].name)
    /\ IsErrorPayload(function_results[1].result)
    /\ function_results[2].result = <<"ra">>

\* what is left of a query, compared lexicographically: the budget not yet
\* used, the stage of the iteration, the attempts or tasks still to come
Remaining(count) == IF count < max_function_calls THEN max_function_calls - count ELSE 0
Stage(p) ==
    CASE p = "prompt" -> 6
      [] p = "calling_ai" -> 5
      [] p = "loop" -> 4
      [] p \in {"awaiting_model", "awaiting_final"} -> 3
      [] p = "gather" -> 2
      [] OTHER -> 0
Pending(p, a, run) ==
    CASE p \in {"awaiting_model", "awaiting_final"} -> StopAfterAttempt - a
      [] p = "gather" -> Cardinality(run)
      [] OTHER -> 0
LexLess(x, y) ==
    \/ x[1] < y[1]
    \/ x[1] = y[1] /\ x[2] < y[2]
    \/ x[1] = y[1] /\ x[2] = y[2] /\ x[3] < y[3]

\* C23: a query cannot go on for ever and cannot hang: every step brings
\* it closer to its end (the budget left, then the stage of the iteration,
\* then the attempts or tasks pending, decrease lexicographically and never
\* go below zero), a step is possible until ai() has ended, at most
\* max_function_calls tool-bearing iterations and max_function_calls + 1 = 7
\* gateway calls are made, and ai() ends in a returned result unless a
\* gateway call has given up.
C23_Terminates ==
    /\ []( /\ Len(sent_tools) <= max_function_calls + 1
           /\ iterations <= max_function_calls
           /\ Pending(pc, attempt, running) >= 0
           /\ pc # "done" => ENABLED Next
           /\ pc = "done" => ai_result.kind \in {"return", "raise"}
           /\ ai_result.kind = "raise" => attempt = StopAfterAttempt )
    /\ [][LexLess(<<Remaining(function_call_count'), Stage(pc'),
                     Pending(pc', attempt', running')>>,
                   <<Remaining(function_call_count), Stage(pc),
                     Pending(pc, attempt, running)>>)]_vars

\* C23 witness: a query that ended after its seventh gateway call
C23_Witness ==
    /\ pc = "done"
    /\ Len(sent_tools) = max_function_calls + 1
    /\ iterations = max_function_calls
    /\ ai_result.kind = "return"

\* C24: a model call inside the loop, and the dispatch that follows it,
\* happens only with the counter below max_function_calls; the counter never
\* decreases and, between iterations, equals the number of tool-result turns
\* in the transcript; the calls dispatched before the last tool-bearing
\* iteration number less than max_function_calls; and the final call is
\* issued only with the counter at max_function_calls or above.
C24_CounterGuardsDispatch ==
    /\ []( /\ pc \in {"awaiting_model", "gather"} =>
                function_call_count < max_function_calls
           /\ pc \in {"loop", "awaiting_model", "awaiting_final", "gather"} =>
                function_call_count = ToolResultCount
           /\ pc = "loop" => function_call_count = dispatched
           /\ dispatched - Len(function_calls) < max_function_calls
           /\ final_call_made => function_call_count >= max_function_calls)
    /\ [][function_call_count' >= function_call_count]_vars

\* C24 witness: the final call issued with the counter above the budget
C24_Witness ==
    /\ pc = "awaiting_final"
    /\ function_call_count > max_function_calls

\* C26: over the queries of a session the history gains a reply turn at
\* the end of a query exactly when the query succeeded; when it failed the
\* history is left as the query made it, question and assistant and tool
\* turns included; and from the end of a query to the first model call of
\* the next one the only change to the history is the new question appended,
\* so that call is sent all of it.
C26_HistoryKeptAcrossQueries ==
    /\ [](pc = "done" =>
            /\ messages # <<>>
            /\ psq_result.success <=> messages[Len(messages)].role = "assistant")
    /\ [][ /\ (pc # "done" /\ pc' = "done") =>
                messages' = IF psq_result'.success
                            THEN Append(messages,
                                    Message("assistant", <<TextSeg(psq_result'.val)>>))
                            ELSE messages
           /\ pc \in {"done", "calling_ai", "loop"} => messages' = messages
           /\ pc = "prompt" => messages' = Append(messages, UserQuery) ]_vars

\* C26 witness: the first model call of a query that follows one which
\* failed after a tool-bearing iteration
C26_Witness ==
    /\ pc = "awaiting_model"
    /\ Len(sent_tools) = 1
    /\ iterations = 0
    /\ Len(messages) >= 4
    /\ messages[Len(messages)] = UserQuery
    /\ HasToolResult(messages[Len(messages) - 1])
    /\ messages[1] = UserQuery
====
